---- MODULE Spec2Model ----
(***************************************************************************)
(* Sous-vide time calculator (src/js/app.js): the calculation functions    *)
(* computeHeatingTime, computePasteurizationTime and computeTotalTime.     *)
(*                                                                         *)
(* JavaScript numbers are modelled in fixed point:                         *)
(*   - temperatures in tenths of a degree Celsius (58 C is 580);           *)
(*   - thickness in tenths of a millimetre (25 mm is 250);                 *)
(*   - dimensionless quantities (Y, Fo, logarithms, powers) in millionths; *)
(*   - times returned by the estimators in thousandths of a minute;        *)
(*   - the fields of computeTotalTime's result in whole minutes.           *)
(* The non-numeric outcomes Infinity, NaN, undefined and null are kept     *)
(* apart from the numbers by the tag k of a value [k, v].                  *)
(* Every quantity stays below 2^31: the D-value, in millionths of a        *)
(* minute, does so for holding temperatures from about 45 C upwards, and   *)
(* a time of less than a thousandth of a minute (holding temperatures      *)
(* above about 80 C) is not told from zero.  The inputs are chosen inside  *)
(* that range.                                                             *)
(***************************************************************************)
EXTENDS Integers, Sequences, FiniteSets, TLC

VARIABLES input, out

vars == <<input, out>>

----------------------------------------------------------------------------
(* JavaScript values                                                       *)

Num(n) == [k |-> "num", v |-> n]
Infinity == [k |-> "inf", v |-> 0]
NaN == [k |-> "nan", v |-> 0]
Undefined == [k |-> "undefined", v |-> 0]
Null == [k |-> "null", v |-> 0]

\* isFinite(x): false for Infinity and NaN (and for undefined, which
\* converts to NaN); true for a number.
isFinite(x) == x.k = "num"

\* x || y on a number-or-null operand: null, undefined, NaN and 0 are falsy.
OrElse(x, y) == IF x.k = "num" /\ x.v # 0 THEN x ELSE y

----------------------------------------------------------------------------
(* Fixed-point arithmetic.  One is 1.0 in millionths.                      *)

One == 10^6

Abs(n) == IF n < 0 THEN -n ELSE n

\* <<q, m>> with r * b = q * c + m and 0 <= m < c, for 0 <= r < c and b >= 0,
\* by long multiplication on the hexadecimal digits of b: no intermediate
\* exceeds 31 * c.
RECURSIVE DivMod(_, _, _)
DivMod(r, b, c) ==
    IF b = 0 THEN <<0, 0>>
    ELSE LET h == DivMod(r, b \div 16, c)
             m16 == 16 * h[2] + (b % 16) * r
         IN  <<16 * h[1] + (m16 \div c), m16 % c>>

\* floor(a * b / c) for a, b >= 0 and c > 0, exact.
MulDivNat(a, b, c) == (a \div c) * b + DivMod(a % c, b, c)[1]

\* a * b / c for any sign of a and b, c > 0, rounded toward zero.
MulDiv(a, b, c) ==
    IF (a < 0) = (b < 0) THEN MulDivNat(Abs(a), Abs(b), c)
    ELSE -MulDivNat(Abs(a), Abs(b), c)

\* Sum over k = n, n+1, ... of z^(2k+1) / (2k+1), given pw = z^(2k+1) and
\* z2 = z^2, until the power vanishes (z in millionths, |z| <= 1/3).
RECURSIVE AtanhSeries(_, _, _)
AtanhSeries(pw, z2, n) ==
    IF pw = 0 THEN 0
    ELSE pw \div (2 * n + 1) + AtanhSeries(MulDiv(pw, z2, One), z2, n + 1)

\* atanh(z) for 0 <= z <= 1/3.
Atanh(z) == AtanhSeries(z, MulDiv(z, z, One), 0)

Ln2 == 2 * Atanh(One \div 3)

\* Math.log(x) for x > 0: x is halved or doubled into [0.75, 1.5), where
\* ln x = 2 atanh((x - 1) / (x + 1)).
RECURSIVE MathLog(_)
MathLog(x) ==
    IF x >= (3 * One) \div 2 THEN MathLog(x \div 2) + Ln2
    ELSE IF 4 * x < 3 * One THEN MathLog(2 * x) - Ln2
    ELSE IF x >= One THEN 2 * Atanh(MulDiv(x - One, One, x + One))
    ELSE -2 * Atanh(MulDiv(One - x, One, x + One))

Ln10 == MathLog(10 * One)

\* Sum over k = n, n+1, ... of r^k / k!, given term = r^n / n!, 0 <= r < 1.
RECURSIVE ExpSeries(_, _, _)
ExpSeries(term, r, n) ==
    IF term = 0 THEN 0
    ELSE term + ExpSeries(MulDiv(term, r, (n + 1) * One), r, n + 1)

\* 2^k * m for k >= 0, m / 2^(-k) for k < 0.
Scale2(m, k) == IF k >= 0 THEN m * 2^k ELSE m \div 2^(-k)

\* floor(x / Ln2) for any sign of x.
FloorLn2(x) == IF x >= 0 THEN x \div Ln2 ELSE -((-x + Ln2 - 1) \div Ln2)

\* Math.exp(x) = 2^k * exp(r) with x = k ln 2 + r, 0 <= r < ln 2.
MathExp(x) ==
    LET k == FloorLn2(x)
        r == x - k * Ln2
    IN  Scale2(ExpSeries(One, r, 0), k)

\* Math.pow(10, e) = exp(e ln 10).
Pow10(e) == MathExp(MulDiv(e, Ln10, One))

----------------------------------------------------------------------------
(* Arithmetic on tagged values                                             *)

\* Mutant: Math.round in place of Math.ceil.
MathRound(x) ==
    IF x.k = "num"
    THEN Num(IF x.v >= 0 THEN (x.v + 500) \div 1000 ELSE -((-x.v + 499) \div 1000))
    ELSE IF x.k = "inf" THEN Infinity ELSE NaN

\* Math.ceil of a time in thousandths of a minute, in whole minutes.
\* Infinity and NaN are returned as they are; undefined converts to NaN.
MathCeil(x) ==
    IF x.k = "num"
    THEN Num(IF x.v >= 0 THEN (x.v + 999) \div 1000 ELSE -((-x.v) \div 1000))
    ELSE IF x.k = "inf" THEN Infinity ELSE NaN

\* x + y: NaN when either is NaN or undefined, else Infinity when either is.
Plus(x, y) ==
    IF x.k = "num" /\ y.k = "num" THEN Num(x.v + y.v)
    ELSE IF x.k \in {"nan", "undefined"} \/ y.k \in {"nan", "undefined"} THEN NaN
    ELSE Infinity

\* a / b for integers a and b, in millionths: division by zero gives
\* Infinity, -Infinity or NaN as IEEE 754 does.
Divide(a, b) ==
    IF b # 0 THEN Num(IF b > 0 THEN MulDiv(a, One, b) ELSE MulDiv(-a, One, -b))
    ELSE IF a > 0 THEN Infinity
    ELSE IF a < 0 THEN [k |-> "-inf", v |-> 0]
    ELSE NaN

\* Mutant: Math.exp(e) in place of Math.pow(10, e).
MathPowE(e) ==
    IF e.k = "num" THEN Num(MathExp(e.v))
    ELSE IF e.k = "inf" THEN Infinity
    ELSE IF e.k = "-inf" THEN Num(0)
    ELSE NaN

\* Math.pow(10, e) on a tagged exponent.
MathPow10(e) ==
    IF e.k = "num" THEN Num(Pow10(e.v))
    ELSE IF e.k = "inf" THEN Infinity
    ELSE IF e.k = "-inf" THEN Num(0)
    ELSE NaN

\* x * n / d for a tagged x >= 0 and integers n >= 0, d > 0:
\* 0 * Infinity is NaN.
Times(x, n, d) ==
    IF x.k = "num" THEN Num(MulDiv(x.v, n, d))
    ELSE IF x.k = "inf" /\ n # 0 THEN Infinity
    ELSE NaN

----------------------------------------------------------------------------
(* Constant tables                                                         *)

\* Thermal diffusivity, in 10^-9 m^2/s.
THERMAL_DIFFUSIVITY ==
    [beef |-> 111, pork |-> 111, poultry |-> 111, fish |-> 111,
     vegetables |-> 140, default |-> 111]

\* d_ref in tenths of a minute, t_ref and z in tenths of a degree,
\* target_log in tenths.
PASTEURIZATION_PARAMS ==
    [beef       |-> [d_ref |-> 32, t_ref |-> 600, z |-> 60, target_log |-> 65],
     pork       |-> [d_ref |-> 32, t_ref |-> 600, z |-> 60, target_log |-> 65],
     poultry    |-> [d_ref |-> 50, t_ref |-> 600, z |-> 60, target_log |-> 70],
     fish       |-> [d_ref |-> 30, t_ref |-> 600, z |-> 60, target_log |-> 60],
     vegetables |-> [d_ref |-> 0,  t_ref |-> 0,   z |-> 0,  target_log |-> 0]]

\* table[key]: undefined for a key the table does not have.
Lookup(table, key) == IF key \in DOMAIN table THEN Num(table[key]) ELSE Undefined

\* Mutant: the lookup without its fallback to the default entry.
DiffusivityNoDefault(foodType) == Lookup(THERMAL_DIFFUSIVITY, foodType)

\* THERMAL_DIFFUSIVITY[foodType] || THERMAL_DIFFUSIVITY.default
DiffusivityOf(foodType) ==
    OrElse(Lookup(THERMAL_DIFFUSIVITY, foodType), Num(THERMAL_DIFFUSIVITY.default))

\* PASTEURIZATION_PARAMS[foodType] || PASTEURIZATION_PARAMS.beef
ParamsOf(foodType) ==
    IF foodType \in DOMAIN PASTEURIZATION_PARAMS
    THEN PASTEURIZATION_PARAMS[foodType]
    ELSE PASTEURIZATION_PARAMS.beef

----------------------------------------------------------------------------
(* The estimators                                                          *)

\* The Fourier number for a shape from the ratio Y, by the inverted one-term
\* solution; undefined for a shape that is none of the three.
\* Mutant: the coefficients of the slab and of the sphere exchanged.
FourierNumberShapesSwapped(shape, Y) ==
    IF shape = "sphere" THEN Num(MulDiv(-MathLog(MulDiv(Y, 1000, 1273)), 1000, 2467))
    ELSE IF shape = "cylinder" THEN Num(MulDiv(-MathLog(MulDiv(Y, 1000, 1602)), 1000, 5783))
    ELSE IF shape = "slab" THEN Num(MulDiv(-MathLog(MulDiv(Y, 1000, 2000)), 1000, 9870))
    ELSE Undefined

\* Mutant: a leading coefficient below 1 for the slab.
FourierNumberSmallC1(shape, Y) ==
    IF shape = "slab" THEN Num(MulDiv(-MathLog(MulDiv(Y, 1000, 500)), 1000, 2467))
    ELSE IF shape = "cylinder" THEN Num(MulDiv(-MathLog(MulDiv(Y, 1000, 1602)), 1000, 5783))
    ELSE IF shape = "sphere" THEN Num(MulDiv(-MathLog(MulDiv(Y, 1000, 2000)), 1000, 9870))
    ELSE Undefined

FourierNumber(shape, Y) ==
    IF shape = "slab" THEN Num(MulDiv(-MathLog(MulDiv(Y, 1000, 1273)), 1000, 2467))
    ELSE IF shape = "cylinder" THEN Num(MulDiv(-MathLog(MulDiv(Y, 1000, 1602)), 1000, 5783))
    ELSE IF shape = "sphere" THEN Num(MulDiv(-MathLog(MulDiv(Y, 1000, 2000)), 1000, 9870))
    ELSE Undefined

\* if (Fo < 0) Fo = 0.01; the comparison is false for undefined.
FloorFo(Fo) == IF Fo.k = "num" /\ Fo.v < 0 THEN Num(One \div 100) ELSE Fo

\* Mutant: Fo / (r * r) in place of Fo * (r * r).
TimeOfFoOverSquare(Fo, thickness, alpha) ==
    IF Fo.k = "num" /\ alpha.k = "num"
    THEN Num(MulDiv(Fo.v, 24 * alpha.v * 1000, thickness * thickness))
    ELSE NaN

\* Fo * (r * r) / alpha / 60 in thousandths of a minute, with
\* r = thickness / 1000 / 2 metres: r^2 / alpha / 60 is
\* thickness^2 / (24 * alpha) minutes for thickness in tenths of a millimetre
\* and alpha in 10^-9 m^2/s.  Arithmetic on undefined gives NaN.
TimeOfFo(Fo, thickness, alpha) ==
    IF Fo.k = "num" /\ alpha.k = "num"
    THEN Num(MulDiv(Fo.v, thickness * thickness, 24 * alpha.v * 1000))
    ELSE NaN

\* The heating time past the two early returns.
HeatingTimeOf(p) ==
    LET alpha == DiffusivityOf(p.foodType)
        Y == MulDiv(p.tempBath - p.tempCore, One, p.tempBath - p.tempStart)
        Fo == FloorFo(FourierNumber(p.shape, Y))
    IN  TimeOfFo(Fo, p.thickness, alpha)

\* Mutant: the two early returns in the other order.
HeatingTimeSatisfiedFirst(p) ==
    IF p.tempCore <= p.tempStart THEN Num(0)
    ELSE IF p.tempCore >= p.tempBath THEN Infinity
    ELSE HeatingTimeOf(p)

\* Mutant: "already there" tested with < in place of <=.
HeatingTimeStrictStart(p) ==
    IF p.tempCore >= p.tempBath THEN Infinity
    ELSE IF p.tempCore < p.tempStart THEN Num(0)
    ELSE HeatingTimeOf(p)

\* The switch that sets shapeFactor is left out: the value is never read.
computeHeatingTime(p) ==
    IF p.tempCore >= p.tempBath THEN Infinity
    ELSE IF p.tempCore <= p.tempStart THEN Num(0)
    ELSE HeatingTimeOf(p)

\* Mutant: the exponent with its sign turned, (tempCore - t_ref) / z.
DValueSignTurned(params, tempCore) ==
    Times(MathPow10(Divide(tempCore - params.t_ref, params.z)), params.d_ref, 10)

\* dValue = d_ref * 10^((t_ref - tempCore) / z), in millionths of a minute.
DValue(params, tempCore) ==
    Times(MathPow10(Divide(params.t_ref - tempCore, params.z)), params.d_ref, 10)

\* The pasteurization time past the early return: dValue * targetLog, in
\* thousandths of a minute.
PasteurizationTimeOf(params, p) ==
    LET targetLog == OrElse(p.logReduction, Num(params.target_log))
        dValue == DValue(params, p.tempCore)
    IN  Times(dValue, targetLog.v, 10 * 1000)

\* Mutant: no early return for a zero d_ref.
PasteurizationTimeNoGuard(p) == PasteurizationTimeOf(ParamsOf(p.foodType), p)

computePasteurizationTime(p) ==
    LET params == ParamsOf(p.foodType)
    IN  IF params.d_ref = 0 THEN Num(0)
        ELSE PasteurizationTimeOf(params, p)

\* The argument computeTotalTime hands to computePasteurizationTime.
PasteurizationInput(p) ==
    [foodType |-> p.foodType, tempCore |-> p.tempCore,
     logReduction |-> p.logReduction]

\* Mutant: only the heating and total fields are nulled when unreachable.
TotalTimePartialNull(p) ==
    LET heatingTime == computeHeatingTime(p)
        pasteurizationTime == computePasteurizationTime(PasteurizationInput(p))
    IN  IF ~isFinite(heatingTime)
        THEN [heatingTime |-> Null,
              pasteurizationTime |-> MathCeil(pasteurizationTime),
              totalTime |-> Null]
        ELSE [heatingTime |-> MathCeil(heatingTime),
              pasteurizationTime |-> MathCeil(pasteurizationTime),
              totalTime |-> MathCeil(Plus(heatingTime, pasteurizationTime))]

\* Mutant: no test of isFinite(heatingTime).
TotalTimeNoFiniteTest(p) ==
    LET heatingTime == computeHeatingTime(p)
        pasteurizationTime == computePasteurizationTime(PasteurizationInput(p))
    IN  [heatingTime |-> MathCeil(heatingTime),
         pasteurizationTime |-> MathCeil(pasteurizationTime),
         totalTime |-> MathCeil(Plus(heatingTime, pasteurizationTime))]

\* Mutant: the total is the sum of the two rounded fields.
TotalTimeSumOfCeilings(p) ==
    LET heatingTime == computeHeatingTime(p)
        pasteurizationTime == computePasteurizationTime(PasteurizationInput(p))
    IN  IF ~isFinite(heatingTime)
        THEN [heatingTime |-> Null, pasteurizationTime |-> Null, totalTime |-> Null]
        ELSE [heatingTime |-> MathCeil(heatingTime),
              pasteurizationTime |-> MathCeil(pasteurizationTime),
              totalTime |-> Plus(MathCeil(heatingTime), MathCeil(pasteurizationTime))]

\* Mutant: the total is the rounded heating time alone.
TotalTimeHeatingOnly(p) ==
    LET heatingTime == computeHeatingTime(p)
        pasteurizationTime == computePasteurizationTime(PasteurizationInput(p))
    IN  IF ~isFinite(heatingTime)
        THEN [heatingTime |-> Null, pasteurizationTime |-> Null, totalTime |-> Null]
        ELSE [heatingTime |-> MathCeil(heatingTime),
              pasteurizationTime |-> MathCeil(pasteurizationTime),
              totalTime |-> MathCeil(heatingTime)]

\* Mutant: pasteurization evaluated at the bath temperature.
TotalTimeAtBath(p) ==
    LET heatingTime == computeHeatingTime(p)
        pasteurizationTime ==
            computePasteurizationTime([foodType |-> p.foodType,
                                       tempCore |-> p.tempBath,
                                       logReduction |-> p.logReduction])
    IN  IF ~isFinite(heatingTime)
        THEN [heatingTime |-> Null, pasteurizationTime |-> Null, totalTime |-> Null]
        ELSE [heatingTime |-> MathCeil(heatingTime),
              pasteurizationTime |-> MathCeil(pasteurizationTime),
              totalTime |-> MathCeil(Plus(heatingTime, pasteurizationTime))]

computeTotalTime(p) ==
    LET heatingTime == computeHeatingTime(p)
        pasteurizationTime == computePasteurizationTime(PasteurizationInput(p))
    IN  IF ~isFinite(heatingTime)
        THEN [heatingTime |-> Null, pasteurizationTime |-> Null, totalTime |-> Null]
        ELSE [heatingTime |-> MathCeil(heatingTime),
              pasteurizationTime |-> MathCeil(pasteurizationTime),
              totalTime |-> MathCeil(Plus(heatingTime, pasteurizationTime))]

----------------------------------------------------------------------------
(* The inputs the functions are applied to                                 *)

MaxThicknessIdx == 1
MaxTempIdx == 3

\* "lamb" and "cube" stand for a food type and a shape the tables do not know.
FoodTypes == {"beef", "pork", "poultry", "fish", "vegetables", "lamb"}
Shapes == {"slab", "cylinder", "sphere", "cube"}
\* 5 mm, 25 mm, 45 mm, ...
Thicknesses == {50 + 200 * i : i \in 0..MaxThicknessIdx}
\* 52 C, 54 C, 56 C, 58 C, ... for the bath and the target core
Temps == {520 + 20 * i : i \in 0..MaxTempIdx}
\* from the fridge (4 C), and a piece that starts hot (56 C)
StartTemps == {40, 560}
\* holding temperatures at and below zero, applied to vegetables
ColdTemps == {-50, 0}
\* logReduction: absent (null), 0, 3.0
LogReductions == {Null, Num(0), Num(30)}

Inputs ==
    [foodType : FoodTypes, shape : Shapes, thickness : Thicknesses,
     tempBath : Temps, tempStart : StartTemps, tempCore : Temps,
     logReduction : LogReductions]
    \cup
    [foodType : {"vegetables"}, shape : Shapes, thickness : Thicknesses,
     tempBath : Temps, tempStart : StartTemps, tempCore : ColdTemps,
     logReduction : LogReductions]

NoCall == [op |-> "none", heatingTime |-> Null, pasteurizationTime |-> Null,
           totalTime |-> Null]

Init == /\ input \in Inputs
        /\ out = NoCall

CallComputeHeatingTime ==
    /\ out' = [op |-> "computeHeatingTime",
               heatingTime |-> computeHeatingTime(input),
               pasteurizationTime |-> Null, totalTime |-> Null]
    /\ UNCHANGED input

CallComputePasteurizationTime ==
    /\ out' = [op |-> "computePasteurizationTime",
               heatingTime |-> Null,
               pasteurizationTime |-> computePasteurizationTime(input),
               totalTime |-> Null]
    /\ UNCHANGED input

CallComputeTotalTime ==
    /\ out' = [op |-> "computeTotalTime"] @@ computeTotalTime(input)
    /\ UNCHANGED input

Next == \/ CallComputeHeatingTime
        \/ CallComputePasteurizationTime
        \/ CallComputeTotalTime

Spec == Init /\ [][Next]_vars

----------------------------------------------------------------------------
(* computePasteurizationTime alone, on a finer grid of holding             *)
(* temperatures                                                            *)

MaxHoldIdx == 50

\* 45 C, 45.5 C, ..., 70 C, ...
HoldTemps == {450 + 5 * i : i \in 0..MaxHoldIdx}

PasteurizationInputs ==
    [foodType : FoodTypes, tempCore : HoldTemps, logReduction : LogReductions]

InitPasteurization ==
    /\ input \in PasteurizationInputs
    /\ out = NoCall

SpecPasteurization ==
    InitPasteurization /\ [][CallComputePasteurizationTime]_vars

----------------------------------------------------------------------------
(* computeHeatingTime alone, from targets a tenth of a degree above the    *)
(* start to half a degree below the bath                                   *)

MaxHeatingThicknessIdx == 2

\* 5 mm, 77.5 mm, 150 mm, ...
HeatingThicknesses == {50 + 725 * i : i \in 0..MaxHeatingThicknessIdx}

HeatingInputs ==
    [foodType : {"beef", "vegetables"}, shape : Shapes,
     thickness : HeatingThicknesses, tempBath : {46, 580, 950},
     tempStart : {40, 200}, tempCore : {41, 205, 450, 560, 945},
     logReduction : {Null}]

InitHeating ==
    /\ input \in HeatingInputs
    /\ out = NoCall

SpecHeating == InitHeating /\ [][CallComputeHeatingTime]_vars

----------------------------------------------------------------------------
(* computeTemperatureCurve.  totalMinutes is in tenths of a minute, a      *)
(* point's x in 1/500 of a minute (the fiftieth part of a tenth) and its y *)
(* in millionths of a tenth of a degree.                                   *)

Max(a, b) == IF a >= b THEN a ELSE b
Min(a, b) == IF a <= b THEN a ELSE b

\* Mutant: the slab's coefficients for every shape.
CurveCoefficientsSlabOnly(shape) == [c1 |-> 1273, c2 |-> 2467]

\* switch (shape): c1 and c2 in thousandths; default: the slab's.
CurveCoefficients(shape) ==
    IF shape = "cylinder" THEN [c1 |-> 1602, c2 |-> 5783]
    ELSE IF shape = "sphere" THEN [c1 |-> 2000, c2 |-> 9870]
    ELSE [c1 |-> 1273, c2 |-> 2467]

\* Mutant: 25 steps, and two minutes at least.
StepSizeTwentyFive(totalMinutes) == Max(1000, 2 * totalMinutes)

\* stepSize = Math.max(1, totalMinutes / steps) with steps = 50.
StepSize(totalMinutes) == Max(500, totalMinutes)

\* Mutant: t < totalMinutes.
LoopTestStrict(t, totalMinutes) == t < 50 * totalMinutes

\* The loop's test t <= totalMinutes.
LoopTest(t, totalMinutes) == t <= 50 * totalMinutes

\* Fo = (alpha * tSec) / (r * r) in millionths, tSec = t * 60 and
\* r = thickness / 1000 / 2: 0.048 * alpha * t / thickness^2 in the model's
\* units.
FoAt(t, thickness, alpha) == MulDiv(alpha * t, 48000, thickness * thickness)

\* Math.exp(-c2 * Fo) in millionths; with c2 * Fo past 20 it is below
\* 3 * 10^-9 and reads 0 at this resolution.
ExpOfMinus(c2, Fo) ==
    LET x == MulDiv(Min(Fo, 20 * One), c2, 1000)
    IN  IF x >= 20 * One THEN 0 ELSE MathExp(-x)

\* Mutant: Y left as it is.
ClampNone(Y) == Y

\* if (Y > 1) Y = 1
Clamp(Y) == IF Y > One THEN One ELSE Y

\* temp = tempBath - Y * (tempBath - tempStart).  With Y = 1 the doubles
\* compute tempBath - (tempBath - tempStart), which is tempStart up to the
\* rounding of the two subtractions: err is that rounding, in units of the
\* last place.  With Y < 1 the rounding is far below the distance to
\* tempStart and is left out.
Temp(tempBath, tempStart, Y, err) ==
    tempBath * One - Y * (tempBath - tempStart) + (IF Y = One THEN err ELSE 0)

\* The roundings possible for tempBath - (tempBath - tempStart): the inner
\* difference drops the low bits of tempStart, so there is none when
\* tempStart is a multiple of half a degree (a double with no low bits) or
\* within a factor 2 of tempBath (the difference is then exact).
RoundingErrors(tempBath, tempStart) ==
    IF \/ tempStart % 5 = 0
       \/ tempBath <= 2 * tempStart /\ tempStart <= 2 * tempBath
    THEN {0}
    ELSE {-1, 0, 1}

\* The rounding accumulated by t += stepSize, far below the step: it counts
\* only in the pass where t comes to totalMinutes, and there is none when
\* the step is 1 or a double holds totalMinutes / 50 exactly.
Drifts(totalMinutes) ==
    IF totalMinutes > 500 /\ totalMinutes % 125 # 0 THEN {-1, 0, 1} ELSE {0}

\* The value of t in a pass of the loop: the multiple of the step, with the
\* accumulated rounding where it comes to totalMinutes.
Accumulated(t, totalMinutes, drift) ==
    IF t = 50 * totalMinutes THEN t + drift ELSE t

\* The body of the loop: the point at time t.
PointAt(params, t, err) ==
    LET alpha == DiffusivityOf(params.foodType).v
        c == CurveCoefficients(params.shape)
        Fo == FoAt(t, params.thickness, alpha)
        Y == Clamp(MulDiv(c.c1, ExpOfMinus(c.c2, Fo), 1000))
    IN  [x |-> t, y |-> Temp(params.tempBath, params.tempStart, Y, err)]

\* for (let t = 0; t <= totalMinutes; t += stepSize) points.push(...):
\* pass k has t = k * stepSize, and the step being totalMinutes / 50 at
\* least, the test fails in pass 51 at the latest.
computeTemperatureCurve(params, totalMinutes, drift, err) ==
    LET stepSize == StepSize(totalMinutes)
        passes == {k \in 0..50 :
                      LoopTest(Accumulated(k * stepSize, totalMinutes, drift),
                               totalMinutes)}
    IN  [i \in 1..Cardinality(passes) |->
            PointAt(params, Accumulated((i - 1) * stepSize, totalMinutes, drift), err)]

MaxDurationIdx == 2

\* 0, 0.5, 2.5, 31, 50, 50.1 and 62.5 minutes, and whole hours.
Durations == {0, 5, 25, 310, 500, 501, 625} \cup {600 * i : i \in 1..MaxDurationIdx}

BathTemps == {580, 581}
CurveStartTemps == {40, 43, 600}

CurveInputs ==
    [foodType : {"beef", "vegetables"}, shape : Shapes, thickness : Thicknesses,
     tempBath : BathTemps, tempStart : CurveStartTemps, totalMinutes : Durations]

InitCurve ==
    /\ input \in CurveInputs
    /\ out = NoCall

\* Mutant: the call keeps the duration it was given in the input object,
\* rounded up to whole minutes.
CallComputeTemperatureCurveInPlace ==
    /\ out.op # "computeTemperatureCurve"
    /\ \E drift \in Drifts(input.totalMinutes),
          err \in RoundingErrors(input.tempBath, input.tempStart) :
           out' = [op |-> "computeTemperatureCurve",
                   points |-> computeTemperatureCurve(input, input.totalMinutes,
                                                      drift, err)]
    /\ input' = [input EXCEPT !.totalMinutes = 10 * ((@ + 9) \div 10)]

\* A call of computeTemperatureCurve.  A second call in a row computes the
\* same points from the same input and is left out.
CallComputeTemperatureCurve ==
    /\ out.op # "computeTemperatureCurve"
    /\ \E drift \in Drifts(input.totalMinutes),
          err \in RoundingErrors(input.tempBath, input.tempStart) :
           out' = [op |-> "computeTemperatureCurve",
                   points |-> computeTemperatureCurve(input, input.totalMinutes,
                                                      drift, err)]
    /\ UNCHANGED input

SpecCurve == InitCurve /\ [][CallComputeTemperatureCurve]_vars

----------------------------------------------------------------------------
(* buildVegetableCurve.  totalTime is in tenths of a minute, a point's x   *)
(* in 1/400 of a minute (the fortieth part of a tenth), temperatures in    *)
(* tenths of a degree and a point's y in millionths of that.               *)

\* rampMinutes = Math.max(10, totalTime * rampFraction), rampFraction 0.25.
RampMinutes(totalTime) == Max(10 * 400, 10 * totalTime)

\* stepMinutes = Math.max(1, totalTime / steps) with steps = 40.
StepMinutes(totalTime) == Max(400, totalTime)

\* The rounding accumulated by t += stepMinutes, counted in the pass where
\* t comes to totalTime: none when the step is 1 or a double holds
\* totalTime / 40 exactly.
VegetableDrifts(totalTime) ==
    IF totalTime > 400 /\ totalTime % 25 # 0 THEN {-1, 0, 1} ELSE {0}

\* The body of the loop: the point at time t, on the ramp or on the hold.
VegetablePointAt(p, t) ==
    LET rampMinutes == RampMinutes(p.totalTime)
        ratio == MulDiv(t, One, rampMinutes)
    IN  IF t <= rampMinutes
        THEN [x |-> t, y |-> p.startTemp * One + ratio * (p.targetTemp - p.startTemp)]
        ELSE [x |-> t, y |-> p.targetTemp * One]

\* The loop has 41 passes at most, the step being totalTime / 40 at least;
\* then the final point is pushed when the last x is below totalTime.
buildVegetableCurve(p, drift) ==
    LET stepMinutes == StepMinutes(p.totalTime)
        end == 40 * p.totalTime
        T(k) == IF k * stepMinutes = end THEN end + drift ELSE k * stepMinutes
        passes == {k \in 0..40 : T(k) <= end}
        points == [i \in 1..Cardinality(passes) |-> VegetablePointAt(p, T(i - 1))]
    IN  IF points[Len(points)].x < end
        THEN Append(points, [x |-> end, y |-> p.targetTemp * One])
        ELSE points

MaxVegetableTimeIdx == 6

\* 5, 5.5, 10 and 41 minutes, and 20, 40, ..., 120 minutes, ...
VegetableTimes == {50, 55, 100, 410} \cup {200 * i : i \in 1..MaxVegetableTimeIdx}

VegetableCurveInputs ==
    [totalTime : VegetableTimes, targetTemp : {750, 850, 900},
     startTemp : {40, 200}]

InitVegetableCurve ==
    /\ input \in VegetableCurveInputs
    /\ out = NoCall

CallBuildVegetableCurve ==
    /\ out.op = "none"
    /\ \E drift \in VegetableDrifts(input.totalTime) :
           out' = [op |-> "buildVegetableCurve",
                   points |-> buildVegetableCurve(input, drift)]
    /\ UNCHANGED input

SpecVegetableCurve == InitVegetableCurve /\ [][CallBuildVegetableCurve]_vars

----------------------------------------------------------------------------
(* calculate().  input is the page's state object and out its elements:    *)
(* the texts are strings, the chart's x is in 1/2000 of a minute and its y *)
(* in millionths of a tenth of a degree.                                   *)

\* time in minutes, temp in degrees.
VEGETABLE_DATA ==
    [asparagus_green     |-> [time |-> 20, temp |-> 85, label |-> "veg_asparagus_green"],
     potatoes_sliced     |-> [time |-> 40, temp |-> 75, label |-> "veg_potatoes_sliced"],
     leeks               |-> [time |-> 60, temp |-> 85, label |-> "veg_leeks"],
     potatoes_chunks     |-> [time |-> 60, temp |-> 75, label |-> "veg_potatoes_chunks"],
     carrots_sliced      |-> [time |-> 40, temp |-> 85, label |-> "veg_carrots_sliced"],
     zucchini_cubes      |-> [time |-> 30, temp |-> 75, label |-> "veg_zucchini_cubes"],
     eggplant_halves     |-> [time |-> 40, temp |-> 75, label |-> "veg_eggplant_halves"],
     artichokes_wedges   |-> [time |-> 40, temp |-> 85, label |-> "veg_artichokes_wedges"],
     artichokes_whole    |-> [time |-> 70, temp |-> 85, label |-> "veg_artichokes_whole"],
     onions_whole        |-> [time |-> 80, temp |-> 90, label |-> "veg_onions_whole"],
     broccoli            |-> [time |-> 40, temp |-> 85, label |-> "veg_broccoli"],
     cauliflower_florets |-> [time |-> 40, temp |-> 85, label |-> "veg_cauliflower_florets"],
     peppers_strips      |-> [time |-> 50, temp |-> 80, label |-> "veg_peppers_strips"],
     celeriac_cubes      |-> [time |-> 60, temp |-> 82, label |-> "veg_celeriac_cubes"],
     pumpkin_puree       |-> [time |-> 120, temp |-> 85, label |-> "veg_pumpkin_puree"]]

\* A number with one decimal at most, as a template literal prints it.
NumberText(tenths) ==
    LET whole == ToString(Abs(tenths) \div 10)
        text == IF tenths % 10 = 0 THEN whole
                ELSE whole \o "." \o ToString(Abs(tenths) % 10)
    IN  IF tenths < 0 THEN "-" \o text ELSE text

\* +(c * 9 / 5 + 32).toFixed(1), on tenths of a degree.
cToF(c) == (c * 18 + 3200 + 5) \div 10

\* cToF on the y of a point.
cToFOfPoint(y) == cToF((y + One \div 2) \div One) * One

\* formatTime(minutes), minutes being null or a number of whole minutes.
formatTime(minutes) ==
    IF minutes = Null \/ ~isFinite(minutes) THEN "--"
    ELSE LET h == minutes.v \div 60
             m == minutes.v % 60
         IN  IF h > 0 THEN ToString(h) \o "h " \o ToString(m) \o "m"
             ELSE ToString(m) \o "m"

\* formatTemp(tempC) under state.unit.
formatTemp(state, tempC) ==
    IF state.unit = "F" THEN NumberText(cToF(tempC)) \o "°F"
    ELSE NumberText(tempC) \o "°C"

\* drawChart(points): the points kept in _chartData, in the unit shown.
drawChart(state, points) ==
    IF state.unit = "F"
    THEN [i \in 1..Len(points) |->
             [x |-> points[i].x, y |-> cToFOfPoint(points[i].y)]]
    ELSE points

\* The x of every point times f.
Rescaled(points, f) ==
    [i \in 1..Len(points) |-> [x |-> f * points[i].x, y |-> points[i].y]]

\* The cut at the plateau: up to the first point within 0.5 degrees of
\* tempCore and a tenth of the points left after it; without such a point,
\* all of them.
RelevantPoints(fullPoints, tempCore) ==
    LET n == Len(fullPoints)
        near == {i \in 1..n : Abs(fullPoints[i].y - tempCore * One) < 5 * One}
        first == CHOOSE i \in near : \A j \in near : i <= j
        plateauIndex ==
            IF near = {} THEN n - 1
            ELSE Min(n - 1, (first - 1) + ((n - (first - 1)) \div 10))
    IN  SubSeq(fullPoints, 1, plateauIndex + 1)

\* The warnings of the computed branch, as the keys of their texts.
WarningsOf(state) ==
    (IF state.tempBath < 520 THEN <<"warning_temp_low">> ELSE <<>>)
        \o (IF state.thickness > 700 THEN <<"warning_thick">> ELSE <<>>)

\* Mutant: the fixed data never used.
UsesFixedDataNever(state) == FALSE

\* state.category === 'vegetables' and VEGETABLE_DATA[state.foodType] exists.
UsesFixedData(state) ==
    state.category = "vegetables" /\ state.foodType \in DOMAIN VEGETABLE_DATA

\* The branch for vegetables.
CalculateVegetable(state, els, drift) ==
    LET veg == VEGETABLE_DATA[state.foodType]
        vegPoints == buildVegetableCurve([totalTime |-> 10 * veg.time,
                                          targetTemp |-> 10 * veg.temp,
                                          startTemp |-> state.tempStart], drift)
    IN  [els EXCEPT !.op = "calculate",
                    !.resHeat = "--",
                    !.resPast = "--",
                    !.resTotal = formatTime(Num(veg.time)),
                    !.resTemp = formatTemp(state, 10 * veg.temp),
                    !.warnings.display = "none",
                    !.chartData = drawChart(state, Rescaled(vegPoints, 5)),
                    !.calls = <<"buildVegetableCurve", "drawChart">>]

\* The computed branch.
CalculateComputed(state, els, drift, err) ==
    LET results == computeTotalTime(state)
        msgs == WarningsOf(state)
        charted == results.totalTime.k = "num" /\ results.totalTime.v # 0
        fullPoints == computeTemperatureCurve(state, 10 * (results.totalTime.v + 30),
                                              drift, err)
        relevantPoints == RelevantPoints(fullPoints, state.tempCore)
    IN  [els EXCEPT !.op = "calculate",
                    !.resHeat = formatTime(results.heatingTime),
                    !.resPast = formatTime(results.pasteurizationTime),
                    !.resTotal = formatTime(results.totalTime),
                    !.resTemp = formatTemp(state, state.tempCore),
                    !.warnings = [innerHTML |-> msgs,
                                  display |-> IF Len(msgs) > 0 THEN "block" ELSE "none"],
                    !.debugInfo = results,
                    !.chartData = IF charted
                                  THEN drawChart(state, Rescaled(relevantPoints, 4))
                                  ELSE @,
                    !.calls = IF charted
                              THEN <<"computeTotalTime", "computeTemperatureCurve",
                                     "drawChart">>
                              ELSE <<"computeTotalTime">>]

\* The elements calculate() can leave: one for each rounding of the curve's
\* loop and of its first temperature.
calculate(state, els) ==
    IF UsesFixedData(state)
    THEN {CalculateVegetable(state, els, drift) :
              drift \in VegetableDrifts(10 * VEGETABLE_DATA[state.foodType].time)}
    ELSE LET total == computeTotalTime(state).totalTime
             totalMinutes == IF total.k = "num" THEN 10 * (total.v + 30) ELSE 0
         IN  {CalculateComputed(state, els, choice[1], choice[2]) :
                  choice \in Drifts(totalMinutes)
                                 \X RoundingErrors(state.tempBath, state.tempStart)}

\* The page's state with a meat: the defaults, a thick cut in a cool bath,
\* and a target the bath cannot reach.
MeatStates ==
    [category : {"meat"}, foodType : {"beef"}, shape : {"slab"},
     thickness : {250}, tempBath : {580}, tempCore : {560}, tempStart : {40},
     logReduction : {Null}, unit : {"C", "F"}, lengthUnit : {"mm"}]
    \cup
    [category : {"meat"}, foodType : {"beef"}, shape : {"slab"},
     thickness : {750}, tempBath : {510}, tempCore : {560}, tempStart : {40},
     logReduction : {Null}, unit : {"C", "F"}, lengthUnit : {"mm"}]

\* The page's state with a vegetable: bath and core at its temperature.
VegetableStates ==
    {[category |-> "vegetables", foodType |-> kind, shape |-> "slab",
      thickness |-> 250, tempBath |-> 10 * VEGETABLE_DATA[kind].temp,
      tempCore |-> 10 * VEGETABLE_DATA[kind].temp, tempStart |-> 40,
      logReduction |-> Null, unit |-> unit, lengthUnit |-> "mm"] :
         kind \in DOMAIN VEGETABLE_DATA, unit \in {"C", "F"}}

AppStates == MeatStates \cup VegetableStates

\* The elements of the page as loaded, nothing shown yet.
PageEls ==
    [op |-> "none", resHeat |-> "", resPast |-> "", resTotal |-> "", resTemp |-> "",
     warnings |-> [innerHTML |-> <<>>, display |-> "none"],
     debugInfo |-> [heatingTime |-> Null, pasteurizationTime |-> Null,
                    totalTime |-> Null],
     chartData |-> <<>>, calls |-> <<>>]

InitCalculate ==
    /\ input \in AppStates
    /\ out = PageEls

\* A handler leaves the state set and runs calculate().
CallCalculate ==
    \E state \in AppStates :
        /\ input' = state
        /\ out' \in calculate(state, out)

SpecCalculate == InitCalculate /\ [][CallCalculate]_vars

----------------------------------------------------------------------------
(* The exported functions called one after another on one input object     *)

\* getDonenessPresets(foodType): presets[foodType] || [], temperatures in
\* tenths of a degree.
getDonenessPresets(foodType) ==
    LET presets ==
            [beef |-> <<[label |-> "doneness_rare", temp |-> 520],
                        [label |-> "doneness_med_rare", temp |-> 550],
                        [label |-> "doneness_medium", temp |-> 600],
                        [label |-> "doneness_med_well", temp |-> 650],
                        [label |-> "doneness_well", temp |-> 700]>>,
             pork |-> <<[label |-> "doneness_med_rare", temp |-> 580],
                        [label |-> "doneness_medium", temp |-> 620],
                        [label |-> "doneness_well", temp |-> 700]>>,
             poultry |-> <<[label |-> "doneness_juicy", temp |-> 620],
                           [label |-> "doneness_traditional", temp |-> 700]>>,
             fish |-> <<[label |-> "doneness_mi_cuit", temp |-> 450],
                        [label |-> "doneness_medium", temp |-> 520],
                        [label |-> "doneness_well", temp |-> 600]>>,
             vegetables |-> <<[label |-> "doneness_tender", temp |-> 850]>>]
    IN  IF foodType \in DOMAIN presets THEN presets[foodType] ELSE <<>>

CallGetDonenessPresets ==
    /\ out' = [op |-> "getDonenessPresets",
               presets |-> getDonenessPresets(input.foodType)]
    /\ UNCHANGED input

\* One object with the fields any of the five functions reads.
CallInputs ==
    [foodType : {"beef", "vegetables", "lamb"}, shape : {"slab", "sphere"},
     thickness : {250}, tempBath : {580}, tempStart : {40},
     tempCore : {560, 600}, logReduction : {Null}, totalMinutes : {25, 500}]

InitCalls ==
    /\ input \in CallInputs
    /\ out = NoCall

NextCalls ==
    \/ CallComputeHeatingTime
    \/ CallComputePasteurizationTime
    \/ CallComputeTotalTime
    \/ CallComputeTemperatureCurve
    \/ CallGetDonenessPresets

SpecCalls == InitCalls /\ [][NextCalls]_vars

----------------------------------------------------------------------------
(* The page: state, currentLang, savedDoneness and the controls (els).     *)
(* A temperature control holds tenths of a degree in the unit shown, the   *)
(* thickness control tenths of a millimetre or hundredths of an inch; an   *)
(* emptied number field reads NaN through parseFloat.  A page is the       *)
(* record [state, currentLang, savedDoneness, els].  calculate() and       *)
(* saveState() write the result elements and the storage only, which are   *)
(* not part of a page.                                                     *)

\* +((f - 32) * 5 / 9).toFixed(1), on tenths of a degree from 32 F up.
fToC(f) == ((f - 320) * 10 + 9) \div 18

\* +(mm / 25.4).toFixed(2): tenths of a millimetre to hundredths of an inch.
mmToIn(mm) == (mm * 100 + 127) \div 254

\* +(inch * 25.4).toFixed(1): hundredths of an inch to tenths of a
\* millimetre.  A product ending in 5 in the next place is rounded as the
\* double stands: below the decimal, but exact at 1.25, 3.75 and 6.25 in.
inToMm(inch) ==
    LET p == inch * 254
    IN  IF p % 100 = 50 /\ inch % 250 # 125 THEN p \div 100
        ELSE (p + 50) \div 100

\* The values of the options of the doneness select: 'manual', a preset's
\* temperature, or the text of the one option the vegetables get.
Manual == [k |-> "manual", v |-> 0]
Tender == [k |-> "text", v |-> 0]

\* parseFloat of a control's value.
parseFloat(value) == IF value.k = "num" THEN value ELSE NaN

\* state.unit === 'F' ? cToF(value) : value
DisplayOf(unit, value) ==
    IF value.k = "num"
    THEN Num(IF unit = "F" THEN cToF(value.v) ELSE value.v)
    ELSE NaN

\* state.unit === 'F' ? fToC(shown) : shown
CelsiusOf(unit, shown) ==
    IF shown.k = "num"
    THEN Num(IF unit = "F" THEN fToC(shown.v) ELSE shown.v)
    ELSE NaN

\* const meats = ['beef', 'pork', 'poultry', 'fish']
Meats == <<"beef", "pork", "poultry", "fish">>

\* Object.keys(VEGETABLE_DATA), in the order of the table.
VegetableKeys ==
    <<"asparagus_green", "potatoes_sliced", "leeks", "potatoes_chunks",
      "carrots_sliced", "zucchini_cubes", "eggplant_halves",
      "artichokes_wedges", "artichokes_whole", "onions_whole", "broccoli",
      "cauliflower_florets", "peppers_strips", "celeriac_cubes",
      "pumpkin_puree">>

Range(seq) == {seq[i] : i \in DOMAIN seq}

\* updateFoodTypeOptions(): the options are rebuilt; a select emptied and
\* filled again shows its first option (a drop-down selects it by itself,
\* a list box has no value and gets selectedIndex = 0).
updateFoodTypeOptions(pg) ==
    LET options == IF pg.state.category = "meat" THEN Meats ELSE VegetableKeys
        currentVal == options[1]
        invalid ==
            \/ pg.state.category = "meat" /\ currentVal \notin Range(Meats)
            \/ pg.state.category = "vegetables"
                  /\ currentVal \notin DOMAIN VEGETABLE_DATA
    IN  [pg EXCEPT !.els.foodTypeOptions = options,
                   !.els.foodType = IF invalid THEN options[1] ELSE currentVal]

\* setControlsLocked(locked)
setControlsLocked(pg, locked) ==
    [pg EXCEPT !.els.thicknessDisabled = locked,
               !.els.tempBathDisabled = locked,
               !.els.tempCoreDisabled = locked]

\* Mutant: the first preset whatever was saved.
updateDonenessOptionsFirstPreset(pg) ==
    IF pg.state.category = "vegetables" THEN pg
    ELSE LET presets == getDonenessPresets(pg.els.foodType)
             options == <<Manual>> \o [i \in DOMAIN presets |-> Num(presets[i].temp)]
         IN  [pg EXCEPT !.els.donenessOptions = options,
                        !.els.donenessDisabled = FALSE,
                        !.els.doneness =
                            IF Len(presets) > 0 THEN Num(presets[1].temp)
                            ELSE Manual]

\* updateDonenessOptions(): the options of the food type the select shows,
\* and the selection: the saved doneness if it is among them, else the
\* first preset, else manual.
updateDonenessOptions(pg) ==
    IF pg.state.category = "vegetables" THEN pg
    ELSE LET presets == getDonenessPresets(pg.els.foodType)
             options == <<Manual>> \o [i \in DOMAIN presets |-> Num(presets[i].temp)]
             preferred == pg.savedDoneness
             exists == preferred # Null /\ preferred \in Range(options)
         IN  [pg EXCEPT !.els.donenessOptions = options,
                        !.els.donenessDisabled = FALSE,
                        !.els.doneness =
                            IF exists THEN preferred
                            ELSE IF Len(presets) > 0 THEN Num(presets[1].temp)
                            ELSE Manual]

\* x < y on numbers; false when either is NaN.
Less(x, y) == x.k = "num" /\ y.k = "num" /\ x.v < y.v

\* handleDonenessChange()
handleDonenessChange(pg) ==
    IF pg.state.category = "vegetables" THEN pg
    ELSE IF pg.els.doneness = Manual
    THEN [pg EXCEPT !.els.tempCoreDisabled = FALSE,
                    !.els.tempBathDisabled = FALSE,
                    !.els.tempBathMin = DisplayOf(pg.state.unit, Num(400)),
                    !.els.tempBathMax = DisplayOf(pg.state.unit, Num(950))]
    ELSE LET targetTemp == parseFloat(pg.els.doneness)
             minBath == Plus(targetTemp, Num(5))
             maxBath == Plus(targetTemp, Num(50))
             currentBath == CelsiusOf(pg.state.unit, parseFloat(pg.els.tempBath))
             outside == Less(currentBath, minBath) \/ Less(maxBath, currentBath)
         IN  [pg EXCEPT !.els.tempCore = DisplayOf(pg.state.unit, targetTemp),
                        !.els.tempCoreDisabled = TRUE,
                        !.els.tempBathMin = DisplayOf(pg.state.unit, minBath),
                        !.els.tempBathMax = DisplayOf(pg.state.unit, maxBath),
                        !.els.tempBath =
                            IF outside
                            THEN DisplayOf(pg.state.unit, Plus(targetTemp, Num(20)))
                            ELSE @,
                        !.els.tempBathDisabled = FALSE]

\* updateState(), up to calculate() and saveState()
updateState(pg) ==
    [pg EXCEPT !.state.foodType = pg.els.foodType,
               !.state.thickness =
                   IF pg.state.lengthUnit = "inch" THEN inToMm(pg.els.thickness)
                   ELSE pg.els.thickness,
               !.state.tempBath = CelsiusOf(pg.state.unit, parseFloat(pg.els.tempBath)),
               !.state.tempCore = CelsiusOf(pg.state.unit, parseFloat(pg.els.tempCore))]

\* handleFoodTypeChange()
handleFoodTypeChange(pg) ==
    LET chosen == [pg EXCEPT !.state.foodType = pg.els.foodType]
        veg == VEGETABLE_DATA[chosen.state.foodType]
        locked == setControlsLocked(chosen, TRUE)
    IN  IF chosen.state.category = "vegetables"
        THEN IF chosen.state.foodType \in DOMAIN VEGETABLE_DATA
             THEN updateState(
                     [locked EXCEPT
                         !.els.tempBath = DisplayOf(pg.state.unit, Num(10 * veg.temp)),
                         !.els.tempCore = DisplayOf(pg.state.unit, Num(10 * veg.temp)),
                         !.els.donenessOptions = <<Tender>>,
                         !.els.doneness = Tender,
                         !.els.donenessDisabled = TRUE])
             ELSE updateState(chosen)
        ELSE updateState(handleDonenessChange(updateDonenessOptions(
                 setControlsLocked(chosen, FALSE))))

\* setInputsFromState()
setInputsFromState(pg) ==
    [pg EXCEPT !.els.thickness =
                   IF pg.state.lengthUnit = "inch" THEN mmToIn(pg.state.thickness)
                   ELSE pg.state.thickness,
               !.els.tempBath = DisplayOf(pg.state.unit, pg.state.tempBath),
               !.els.tempCore = DisplayOf(pg.state.unit, pg.state.tempCore)]

\* applyUnitSettings(): the bounds of the bath control for 40..95 C, then
\* the controls refreshed from state.
applyUnitSettings(pg) ==
    setInputsFromState(
        [pg EXCEPT !.els.tempBathMin = DisplayOf(pg.state.unit, Num(400)),
                   !.els.tempBathMax = DisplayOf(pg.state.unit, Num(950))])

\* let state = {...}: the defaults.
DefaultState ==
    [category |-> "meat", foodType |-> "beef", thickness |-> 250,
     tempBath |-> Num(580), tempCore |-> Num(560), unit |-> "C",
     lengthUnit |-> "mm"]

\* What an earlier visit may have left in the storage: nothing, or a
\* payload of saveState().
SavedPayloads ==
    {Null,
     [lang |-> "it", category |-> "meat", foodType |-> "beef", thickness |-> 250,
      tempBath |-> Num(580), tempCore |-> Num(560), unit |-> "C",
      lengthUnit |-> "mm", doneness |-> Manual],
     [lang |-> "en", category |-> "meat", foodType |-> "beef", thickness |-> 250,
      tempBath |-> Num(580), tempCore |-> Num(550), unit |-> "C",
      lengthUnit |-> "mm", doneness |-> Num(550)],
     [lang |-> "en", category |-> "meat", foodType |-> "pork", thickness |-> 250,
      tempBath |-> Num(720), tempCore |-> Num(700), unit |-> "C",
      lengthUnit |-> "mm", doneness |-> Num(700)]}

\* loadSavedState(): each saved field in place of the default.
loadSavedState(saved) ==
    IF saved = Null
    THEN [state |-> DefaultState, currentLang |-> "en", savedDoneness |-> Null]
    ELSE [state |-> [category |-> saved.category, foodType |-> saved.foodType,
                     thickness |-> saved.thickness, tempBath |-> saved.tempBath,
                     tempCore |-> saved.tempCore, unit |-> saved.unit,
                     lengthUnit |-> saved.lengthUnit],
          currentLang |-> saved.lang,
          savedDoneness |-> saved.doneness]

\* The controls before init() has filled them.
BlankEls ==
    [foodTypeOptions |-> <<>>, foodType |-> "", donenessOptions |-> <<>>,
     doneness |-> Manual, donenessDisabled |-> FALSE,
     tempBath |-> NaN, tempBathMin |-> NaN, tempBathMax |-> NaN,
     tempBathDisabled |-> FALSE, tempCore |-> NaN, tempCoreDisabled |-> FALSE,
     thickness |-> 0, thicknessDisabled |-> FALSE]

\* init(): the initial setup, with els.foodType.value = state.foodType
\* after the options are built.
init(saved) ==
    LET loaded == loadSavedState(saved) @@ [els |-> BlankEls]
        built == updateFoodTypeOptions(setInputsFromState(applyUnitSettings(loaded)))
        restored == IF built.state.foodType \in Range(built.els.foodTypeOptions)
                    THEN [built EXCEPT !.els.foodType = built.state.foodType]
                    ELSE [built EXCEPT !.els.foodType = ""]
    IN  handleFoodTypeChange(restored)

\* The page the two variables hold, and a handler's outcome in them.
Page == [state |-> input.state, currentLang |-> input.currentLang,
         savedDoneness |-> input.savedDoneness,
         els |-> [f \in DOMAIN BlankEls |-> out[f]]]

Becomes(op, pg) ==
    /\ input' = [state |-> pg.state, currentLang |-> pg.currentLang,
                 savedDoneness |-> pg.savedDoneness]
    /\ out' = [op |-> op] @@ pg.els

InitPage ==
    \E saved \in SavedPayloads :
        LET pg == init(saved)
        IN  /\ input = [state |-> pg.state, currentLang |-> pg.currentLang,
                        savedDoneness |-> pg.savedDoneness]
            /\ out = [op |-> "init"] @@ pg.els

\* What the user does to the page.
Languages == {"en", "it"}
FoodChoices == {"beef", "pork", "asparagus_green", "leeks"}
TypedBaths == {Num(575), NaN}
TypedCores == {Num(560)}
TypedThicknesses == {500}

\* The click on a language button.
ClickLanguage ==
    \E lang \in Languages :
        Becomes("language",
                updateDonenessOptions(updateFoodTypeOptions(
                    [Page EXCEPT !.currentLang = lang])))

\* The temperature-unit slider.
SlideTempUnit ==
    \E unit \in {"C", "F"} \ {input.state.unit} :
        Becomes("tempUnit",
                handleDonenessChange(updateDonenessOptions(applyUnitSettings(
                    [Page EXCEPT !.state.unit = unit]))))

\* The length-unit slider.
SlideLenUnit ==
    \E lengthUnit \in {"mm", "inch"} \ {input.state.lengthUnit} :
        Becomes("lenUnit",
                setInputsFromState(applyUnitSettings(
                    [Page EXCEPT !.state.lengthUnit = lengthUnit])))

\* The category toggle.
ToggleCategory ==
    \E category \in {"meat", "vegetables"} \ {input.state.category} :
        Becomes("category",
                handleFoodTypeChange(updateFoodTypeOptions(
                    [Page EXCEPT !.state.category = category])))

\* Another food type chosen in the select.
ChangeFoodType ==
    \E foodType \in (FoodChoices \cap Range(out.foodTypeOptions)) \ {out.foodType} :
        Becomes("foodType", handleFoodTypeChange([Page EXCEPT !.els.foodType = foodType]))

\* Another shape chosen: updateState().
ChangeShape ==
    /\ ~out.thicknessDisabled
    /\ Becomes("shape", updateState(Page))

\* Another doneness chosen in the select.
ChangeDoneness ==
    /\ ~out.donenessDisabled
    /\ \E doneness \in Range(out.donenessOptions) \ {out.doneness} :
           Becomes("doneness",
                   updateState(handleDonenessChange(
                       [Page EXCEPT !.els.doneness = doneness])))

\* The bath field edited, or emptied.
InputTempBath ==
    /\ ~out.tempBathDisabled
    /\ \E value \in {DisplayOf(input.state.unit, t) : t \in TypedBaths} :
           Becomes("tempBath", updateState([Page EXCEPT !.els.tempBath = value]))

\* The target field edited.
InputTempCore ==
    /\ ~out.tempCoreDisabled
    /\ \E value \in {DisplayOf(input.state.unit, t) : t \in TypedCores} :
           Becomes("tempCore", updateState([Page EXCEPT !.els.tempCore = value]))

\* The thickness field edited.
InputThickness ==
    /\ ~out.thicknessDisabled
    /\ \E mm \in TypedThicknesses :
           Becomes("thickness",
                   updateState([Page EXCEPT !.els.thickness =
                       IF input.state.lengthUnit = "inch" THEN mmToIn(mm) ELSE mm]))

NextPage ==
    \/ ClickLanguage
    \/ SlideTempUnit
    \/ SlideLenUnit
    \/ ToggleCategory
    \/ ChangeFoodType
    \/ ChangeShape
    \/ ChangeDoneness
    \/ InputTempBath
    \/ InputTempCore
    \/ InputThickness

SpecPage == InitPage /\ [][NextPage]_vars

----------------------------------------------------------------------------
(* The service worker.  A URL is a path under the site's root with its     *)
(* query string; input holds the network and the request under way, out    *)
(* the worker's life cycle, the caches and the last response.              *)

CACHE_NAME == "sous-vide-v4"

Url(path, search) == [path |-> path, search |-> search]

\* ASSETS, resolved against the worker's location.
ASSETS ==
    {Url("", ""), Url("index.html", ""), Url("css/style.css", ""),
     Url("js/app.js", ""), Url("js/calculations.js", ""),
     Url("js/i18n/en.js", ""), Url("js/i18n/it.js", ""),
     Url("manifest.json", ""), Url("icons/icon-192.png", ""),
     Url("icons/icon-512.png", "")}

\* The modules app.js imports, resolved against js/app.js.
Imports ==
    {Url("js/calculations.js", "?v=4"), Url("js/i18n/en.js", "?v=4"),
     Url("js/i18n/it.js", "?v=4"), Url("js/i18n/fr.js", "?v=4"),
     Url("js/i18n/pl.js", "?v=4")}

\* What the page may request: the assets and the imports, each with and
\* without the version query.
Requests ==
    {Url(u.path, search) : u \in ASSETS \cup Imports, search \in {"", "?v=4"}}

\* A cache left by an earlier version of the worker.
OldCaches == [n \in {"sous-vide-v3"} |-> {Url("", ""), Url("js/app.js", "")}]
NoCaches == [n \in {} |-> {}]

\* caches.match(request): a stored response in any cache whose URL equals
\* the request's, query string included.
cachesMatch(caches, request) ==
    \E n \in DOMAIN caches : request \in caches[n]

InitWorker ==
    /\ input \in [online : BOOLEAN, request : {Url("", "")}]
    /\ out \in [op : {"none"}, installed : {FALSE}, active : {FALSE},
                caches : {NoCaches, OldCaches}, response : {"none"}]

\* The install event: caches.open(CACHE_NAME), then cache.addAll(ASSETS),
\* which stores every asset or, one fetch failing, none.
Install ==
    /\ ~out.installed
    /\ LET opened == [n \in DOMAIN out.caches \cup {CACHE_NAME} |->
                         IF n \in DOMAIN out.caches THEN out.caches[n] ELSE {}]
       IN  out' = [out EXCEPT
                      !.op = "install",
                      !.caches = IF input.online
                                 THEN [opened EXCEPT ![CACHE_NAME] = @ \cup ASSETS]
                                 ELSE opened,
                      !.installed = input.online]
    /\ UNCHANGED input

\* The activate event: every cache under another name is deleted.
Activate ==
    /\ out.installed /\ ~out.active
    /\ out' = [out EXCEPT
                  !.op = "activate",
                  !.caches = [n \in DOMAIN out.caches \cap {CACHE_NAME} |->
                                 out.caches[n]],
                  !.active = TRUE]
    /\ UNCHANGED input

\* A request of the page.  Once the worker is active its fetch handler
\* answers: the cached response, or the network's, which fails without a
\* connection; before that the request goes to the network.
Fetch ==
    /\ \E request \in Requests :
           /\ input' = [input EXCEPT !.request = request]
           /\ out' = [out EXCEPT
                         !.op = "fetch",
                         !.response =
                             IF out.active /\ cachesMatch(out.caches, request)
                             THEN "cache"
                             ELSE IF input.online THEN "network"
                             ELSE "error"]

\* The connection comes or goes.
Connection ==
    /\ input' = [input EXCEPT !.online = ~@]
    /\ UNCHANGED out

NextWorker == Install \/ Activate \/ Fetch \/ Connection

SpecWorker == InitWorker /\ [][NextWorker]_vars

----------------------------------------------------------------------------
(* Properties                                                              *)

KnownShapes == {"slab", "cylinder", "sphere"}
KnownFoodTypes == {"beef", "pork", "poultry", "fish", "vegetables"}

HeatingCalled == out.op = "computeHeatingTime"
PasteurizationCalled == out.op = "computePasteurizationTime"
TotalCalled == out.op = "computeTotalTime"

AllNull ==
    out.heatingTime = Null /\ out.pasteurizationTime = Null /\ out.totalTime = Null
NoneNull ==
    out.heatingTime # Null /\ out.pasteurizationTime # Null /\ out.totalTime # Null

\* A finite whole number of minutes that is not negative.
WholeMinutes(x) == x.k = "num" /\ x.v \in Nat

\* Heating can reach the target and the shape is one of the three.
Reachable(p) == p.tempCore < p.tempBath /\ p.shape \in KnownShapes

\* C1: computeHeatingTime returns Infinity whenever tempCore >= tempBath,
\* for every food type and shape, also when tempCore <= tempStart holds too.
C1_UnreachableFirst ==
    (HeatingCalled /\ input.tempCore >= input.tempBath)
        => out.heatingTime = Infinity

C1_Witness ==
    /\ HeatingCalled
    /\ input.tempCore >= input.tempBath
    /\ input.tempCore <= input.tempStart
    /\ input.shape = "cube"
    /\ out.heatingTime = Infinity

\* C2: computeTotalTime returns three nulls when tempCore >= tempBath, three
\* non-null fields otherwise for slab, cylinder and sphere, and never a mix
\* of null and non-null fields.
C2_AllNullOrNone ==
    TotalCalled =>
        /\ (input.tempCore >= input.tempBath => AllNull)
        /\ (Reachable(input) => NoneNull)
        /\ (AllNull \/ NoneNull)

C2_Witness ==
    /\ TotalCalled
    /\ input.tempCore >= input.tempBath
    /\ input.foodType = "poultry"
    /\ AllNull

\* C8: computeHeatingTime returns exactly 0 when tempCore <= tempStart and
\* tempCore < tempBath, for every shape and food type.
C8_ZeroWhenSatisfied ==
    (HeatingCalled /\ input.tempCore <= input.tempStart
                   /\ input.tempCore < input.tempBath)
        => out.heatingTime = Num(0)

C8_Witness ==
    /\ HeatingCalled
    /\ input.tempCore = input.tempStart
    /\ input.tempCore < input.tempBath
    /\ out.heatingTime = Num(0)

\* field is the ceiling of real: a whole number of minutes with
\* real <= field < real + 1 (real in thousandths of a minute).
IsCeilingOf(field, real) ==
    /\ field.k = "num" /\ real.k = "num"
    /\ field.v * 1000 >= real.v
    /\ field.v * 1000 < real.v + 1000

C4_FieldsAreCeilings ==
    (TotalCalled /\ Reachable(input))
        => /\ IsCeilingOf(out.heatingTime, computeHeatingTime(input))
           /\ IsCeilingOf(out.pasteurizationTime, computePasteurizationTime(input))

C4_Witness ==
    /\ TotalCalled /\ Reachable(input)
    /\ computeHeatingTime(input).v % 1000 # 0
    /\ computePasteurizationTime(input).v % 1000 # 0
    /\ out.heatingTime.v * 1000 > computeHeatingTime(input).v
    /\ out.pasteurizationTime.v * 1000 > computePasteurizationTime(input).v

\* C5 as stated: for a reachable input the totalTime field equals the sum of
\* the heatingTime and pasteurizationTime fields.
C5_TotalIsSumOfFields ==
    (TotalCalled /\ Reachable(input))
        => out.totalTime.v = out.heatingTime.v + out.pasteurizationTime.v

\* C5 as amended: for a reachable input the totalTime field is the sum of
\* the heatingTime and pasteurizationTime fields or one minute less.
C5_TotalWithinOneOfSum ==
    (TotalCalled /\ Reachable(input))
        => /\ out.totalTime.v <= out.heatingTime.v + out.pasteurizationTime.v
           /\ out.heatingTime.v + out.pasteurizationTime.v <= out.totalTime.v + 1

C5_Witness ==
    /\ TotalCalled /\ Reachable(input)
    /\ out.totalTime.v + 1 = out.heatingTime.v + out.pasteurizationTime.v

\* C6: for a reachable input the totalTime field is the ceiling of the
\* unrounded sum of the heating and pasteurization times.
C6_TotalIsCeilingOfSum ==
    (TotalCalled /\ Reachable(input))
        => IsCeilingOf(out.totalTime,
                       Plus(computeHeatingTime(input),
                            computePasteurizationTime(input)))

C6_Witness ==
    /\ TotalCalled /\ Reachable(input)
    /\ computeHeatingTime(input).v % 1000 # 0
    /\ computePasteurizationTime(input).v % 1000 # 0
    /\ out.totalTime.v * 1000
           > computeHeatingTime(input).v + computePasteurizationTime(input).v
    /\ out.totalTime.v < out.heatingTime.v + out.pasteurizationTime.v

\* C7: two reachable inputs that differ only in tempBath yield the same
\* pasteurizationTime field.
C7_PasteurizationIgnoresBath ==
    (TotalCalled /\ Reachable(input))
        => \A tb \in Temps :
               LET other == [input EXCEPT !.tempBath = tb]
               IN  Reachable(other)
                       => computeTotalTime(other).pasteurizationTime
                              = out.pasteurizationTime

C7_Witness ==
    /\ TotalCalled /\ Reachable(input)
    /\ out.pasteurizationTime.v > 0
    /\ \E tb \in Temps :
           /\ tb # input.tempBath
           /\ Reachable([input EXCEPT !.tempBath = tb])

\* C9: for slab, cylinder and sphere, tempStart < tempCore < tempBath and
\* positive thickness, computeHeatingTime returns a finite time greater
\* than zero.
C9_PositiveHeatingTime ==
    (HeatingCalled /\ input.shape \in KnownShapes /\ input.thickness > 0
                   /\ input.tempStart < input.tempCore
                   /\ input.tempCore < input.tempBath)
        => out.heatingTime.k = "num" /\ out.heatingTime.v > 0

C9_Witness ==
    /\ HeatingCalled /\ input.shape = "sphere"
    /\ input.foodType = "lamb"
    /\ input.tempStart < input.tempCore /\ input.tempCore < input.tempBath
    /\ out.heatingTime.k = "num" /\ out.heatingTime.v > 0

\* C10: computePasteurizationTime returns exactly 0 for the vegetables
\* record (d_ref 0), for every holding temperature and log reduction.
C10_ZeroForVegetables ==
    (PasteurizationCalled /\ input.foodType = "vegetables")
        => out.pasteurizationTime = Num(0)

C10_Witness ==
    /\ PasteurizationCalled /\ input.foodType = "vegetables"
    /\ input.tempCore = 0 /\ input.logReduction = Num(30)
    /\ out.pasteurizationTime = Num(0)

----------------------------------------------------------------------------
(* Properties of computePasteurizationTime, under SpecPasteurization       *)

\* The food type's record has a d_ref other than zero.
Modelled(foodType) == ParamsOf(foodType).d_ref # 0

\* computePasteurizationTime of the input with another holding temperature.
PasteurizationAt(T) == computePasteurizationTime([input EXCEPT !.tempCore = T])

\* C11 as stated: a supplied log-reduction target is used in place of the
\* default, for every supplied value: the result is D(T) times that value.
C11_SuppliedTargetUsed ==
    (PasteurizationCalled /\ Modelled(input.foodType)
                          /\ input.logReduction.k = "num")
        => out.pasteurizationTime
               = Times(DValue(ParamsOf(input.foodType), input.tempCore),
                       input.logReduction.v, 10 * 1000)

\* C12: for a food type with non-zero d_ref and a fixed log-reduction
\* target, the time is strictly decreasing in the holding temperature.
C12_StrictlyDecreasing ==
    (PasteurizationCalled /\ Modelled(input.foodType))
        => \A T \in HoldTemps :
               T > input.tempCore
                   => /\ PasteurizationAt(T).k = "num"
                      /\ out.pasteurizationTime.k = "num"
                      /\ PasteurizationAt(T).v < out.pasteurizationTime.v

C12_Witness ==
    /\ PasteurizationCalled /\ input.foodType = "fish"
    /\ input.tempCore + 5 \in HoldTemps
    /\ PasteurizationAt(input.tempCore + 5).v < out.pasteurizationTime.v
    /\ PasteurizationAt(input.tempCore + 5).v > 0

\* The log-reduction target the function uses.
TargetLogOf(p) == OrElse(p.logReduction, Num(ParamsOf(p.foodType).target_log)).v

\* At t_ref the result is d_ref * targetLog (tenths times tenths, in
\* thousandths of a minute).
AtReference ==
    input.tempCore = ParamsOf(input.foodType).t_ref
        => out.pasteurizationTime
               = Num(ParamsOf(input.foodType).d_ref * TargetLogOf(input) * 10)

\* a = 10 * b
TenTimes(a, b) == a.k = "num" /\ b.k = "num" /\ a.v = 10 * b.v

\* a = 10 * b to within one part in ten thousand and one unit of b's last
\* place
AboutTenTimes(a, b) ==
    /\ a.k = "num" /\ b.k = "num"
    /\ Abs(a.v - 10 * b.v) <= (a.v \div 10000) + 10

\* C13 as stated: at t_ref the result is d_ref * targetLog, and a holding
\* temperature lower by z multiplies the result by exactly 10.
C13_ExactlyTenfold ==
    (PasteurizationCalled /\ Modelled(input.foodType))
        => /\ AtReference
           /\ LET T == input.tempCore + ParamsOf(input.foodType).z
              IN  T \in HoldTemps
                      => TenTimes(out.pasteurizationTime, PasteurizationAt(T))

\* C13 as amended: at t_ref the result is d_ref * targetLog, and a holding
\* temperature lower by z multiplies the result by 10 up to the rounding of
\* the arithmetic.
C13_TenfoldUpToRounding ==
    (PasteurizationCalled /\ Modelled(input.foodType))
        => /\ AtReference
           /\ LET T == input.tempCore + ParamsOf(input.foodType).z
              IN  T \in HoldTemps
                      => AboutTenTimes(out.pasteurizationTime, PasteurizationAt(T))

C13_Witness ==
    /\ PasteurizationCalled /\ input.foodType = "poultry"
    /\ input.tempCore = 540
    /\ AboutTenTimes(out.pasteurizationTime, PasteurizationAt(600))
    /\ PasteurizationAt(600) = Num(50 * 70 * 10)

----------------------------------------------------------------------------
(* Properties of computeHeatingTime across inputs, under Spec              *)

\* a <= b on numbers and Infinity; false when either is NaN.
Leq(a, b) ==
    \/ a.k = "num" /\ b.k = "num" /\ a.v <= b.v
    \/ a.k \in {"num", "inf"} /\ b.k = "inf"

\* The food has to warm up and the bath can bring it to the target.
MustHeat(p) == p.tempStart < p.tempCore /\ p.tempCore < p.tempBath

C15_SphereFasterThanSlab ==
    (HeatingCalled /\ input.shape = "sphere" /\ MustHeat(input))
        => LET slab == computeHeatingTime([input EXCEPT !.shape = "slab"])
           IN  /\ out.heatingTime.k = "num" /\ slab.k = "num"
               /\ out.heatingTime.v < slab.v

C15_Witness ==
    /\ HeatingCalled /\ input.shape = "sphere" /\ MustHeat(input)
    /\ out.heatingTime.v > 0
    /\ out.heatingTime.v < computeHeatingTime([input EXCEPT !.shape = "slab"]).v

----------------------------------------------------------------------------
(* Properties of computeTemperatureCurve, under SpecCurve                  *)

CurveCalled == out.op = "computeTemperatureCurve"

\* One sample step, max(1, totalMinutes / 50), in the unit of x.
SampleStep == Max(500, input.totalMinutes)

\* C16: for every totalMinutes >= 0 the sequence is not empty, its first
\* point is at time 0, its times increase strictly, and its last point is
\* at or before totalMinutes, less than one sample step away.
C16_CurveSpansDuration ==
    CurveCalled
        => LET points == out.points
               n == Len(points)
           IN  /\ n >= 1
               /\ points[1].x = 0
               /\ \A i \in 1..(n - 1) : points[i].x < points[i + 1].x
               /\ points[n].x <= 50 * input.totalMinutes
               /\ 50 * input.totalMinutes - points[n].x <= SampleStep

C16_Witness ==
    /\ CurveCalled /\ input.totalMinutes = 600
    /\ Len(out.points) = 50
    /\ out.points[50].x = 49 * 600
    /\ out.points[1].x = 0

\* The interval between tempStart and tempBath, widened by slack on both
\* sides, holds y.
Between(y, slack) ==
    /\ y >= Min(input.tempStart, input.tempBath) * One - slack
    /\ y <= Max(input.tempStart, input.tempBath) * One + slack

\* C17 as stated: every temperature of the sequence lies between
\* min(tempStart, tempBath) and max(tempStart, tempBath) inclusive.
C17_WithinStartAndBath ==
    CurveCalled => \A i \in 1..Len(out.points) : Between(out.points[i].y, 0)

\* C17 as amended: every temperature of the sequence lies between
\* min(tempStart, tempBath) and max(tempStart, tempBath) up to the rounding
\* of the last place.
C17_WithinUpToRounding ==
    CurveCalled => \A i \in 1..Len(out.points) : Between(out.points[i].y, 1)

C17_Witness ==
    /\ CurveCalled /\ input.tempStart = 43 /\ input.shape = "sphere"
    /\ Len(out.points) = 51
    /\ out.points[1].y = 43 * One - 1
    /\ out.points[51].y > 500 * One
    /\ out.points[51].y <= input.tempBath * One

\* C18 as stated: the number of points is the same for every positive
\* duration, the 51 points of 50 steps.
C18_SameCountForEveryDuration ==
    (CurveCalled /\ input.totalMinutes > 0) => Len(out.points) = 50 + 1

\* C18 as amended: a duration of 50 minutes or more gives 51 points, or 50
\* when the accumulated time of the last pass rounds past the duration; a
\* shorter duration gives one point a minute, floor(totalMinutes) + 1.
C18_CountByDuration ==
    CurveCalled
        => IF input.totalMinutes >= 500
           THEN Len(out.points) \in {50, 50 + 1}
           ELSE Len(out.points) = (input.totalMinutes \div 10) + 1

C18_Witness ==
    /\ CurveCalled /\ input.totalMinutes = 310
    /\ Len(out.points) = 32
    /\ out.points[32].x = 500 * 31

----------------------------------------------------------------------------
(* Properties of buildVegetableCurve, under SpecVegetableCurve             *)

VegetableCurveCalled == out.op = "buildVegetableCurve"

----------------------------------------------------------------------------
(* Properties of calculate(), under SpecCalculate                          *)

CalculateCalled == out.op = "calculate"

\* C20: with the category vegetables and a food type that is a key of
\* VEGETABLE_DATA, calculate() shows the kind's fixed time as the total and
\* its fixed temperature, "--" for heating and pasteurization, and calls
\* neither computeTotalTime nor computeTemperatureCurve.
C20_VegetablesShowFixedData ==
    (/\ CalculateCalled
     /\ input.category = "vegetables"
     /\ input.foodType \in DOMAIN VEGETABLE_DATA)
        => LET veg == VEGETABLE_DATA[input.foodType]
               called == {out.calls[i] : i \in 1..Len(out.calls)}
           IN  /\ out.resTotal = formatTime(Num(veg.time))
               /\ out.resTotal # "--"
               /\ out.resTemp = formatTemp(input, 10 * veg.temp)
               /\ out.resHeat = "--"
               /\ out.resPast = "--"
               /\ "computeTotalTime" \notin called
               /\ "computeTemperatureCurve" \notin called

C20_Witness ==
    /\ CalculateCalled
    /\ input.category = "vegetables" /\ input.foodType = "onions_whole"
    /\ input.unit = "F"
    /\ out.resTotal = "1h 20m"
    /\ out.resTemp = "194°F"
    /\ out.resHeat = "--" /\ out.resPast = "--"
    /\ out.calls = <<"buildVegetableCurve", "drawChart">>
    /\ out.debugInfo.totalTime # Null

----------------------------------------------------------------------------
(* The estimator against the curve's forward model, under SpecHeating      *)

\* const Y = (tempBath - tempCore) / (tempBath - tempStart), in millionths.
RatioOf(p) == MulDiv(p.tempBath - p.tempCore, One, p.tempBath - p.tempStart)

\* The forward model of the curve at a time in 1/500 of a minute.
ForwardAt(p, t) == PointAt(p, t, 0).y

\* The returned heating time, thousandths of a minute, in 1/500 of a minute.
ReturnedTime == out.heatingTime.v \div 2

HeatedKnownShape ==
    HeatingCalled /\ input.shape \in KnownShapes /\ MustHeat(input)

\* C22 as stated: the forward model at the returned heating time gives
\* tempCore exactly.
C22_ForwardGivesCoreExactly ==
    (HeatedKnownShape /\ out.heatingTime.v % 2 = 0)
        => ForwardAt(input, ReturnedTime) = input.tempCore * One

\* C22: for a known shape and tempStart < tempCore < tempBath, the forward
\* model of computeTemperatureCurve takes the value tempCore at the time
\* computeHeatingTime returns, up to the rounding of the arithmetic: one
\* time unit (1/500 min) earlier it is not above tempCore and two units
\* later not below it, within three millionths of the temperature span.
C22_ForwardGivesCoreUpToRounding ==
    HeatedKnownShape =>
        LET slack == 3 * (input.tempBath - input.tempStart)
        IN  /\ out.heatingTime.k = "num"
            /\ ForwardAt(input, Max(ReturnedTime - 1, 0)) - slack
                   <= input.tempCore * One
            /\ input.tempCore * One
                   <= ForwardAt(input, ReturnedTime + 2) + slack

C22_Witness ==
    /\ HeatedKnownShape
    /\ input.shape = "sphere"
    /\ out.heatingTime.k = "num" /\ out.heatingTime.v > 0
    /\ ForwardAt(input, ReturnedTime) # input.tempCore * One

\* C30: for slab, cylinder and sphere and tempStart < tempCore < tempBath
\* the ratio Y is below 1 and the Fourier number strictly positive, so the
\* floor Fo = 0.01 is not applied and the result is the one of the
\* unfloored Fourier number.
C30_FloorNeverApplied ==
    HeatedKnownShape =>
        LET Fo == FourierNumber(input.shape, RatioOf(input))
        IN  /\ RatioOf(input) < One
            /\ Fo.k = "num" /\ Fo.v > 0
            /\ FloorFo(Fo) = Fo
            /\ out.heatingTime =
                   TimeOfFo(Fo, input.thickness, DiffusivityOf(input.foodType))

C30_Witness ==
    /\ HeatedKnownShape
    /\ input.shape = "slab"
    /\ RatioOf(input) > 990000
    /\ out.heatingTime.k = "num" /\ out.heatingTime.v > 0

----------------------------------------------------------------------------
(* The exported functions are pure, under SpecCalls                        *)

\* What each function returns for the input object as it is now.
ResultOfInput ==
    /\ HeatingCalled => out.heatingTime = computeHeatingTime(input)
    /\ PasteurizationCalled =>
           out.pasteurizationTime = computePasteurizationTime(input)
    /\ TotalCalled =>
           out = [op |-> "computeTotalTime"] @@ computeTotalTime(input)
    /\ out.op = "computeTemperatureCurve" =>
           \E drift \in Drifts(input.totalMinutes),
              err \in RoundingErrors(input.tempBath, input.tempStart) :
               out.points = computeTemperatureCurve(input, input.totalMinutes,
                                                    drift, err)
    /\ out.op = "getDonenessPresets" =>
           out.presets = getDonenessPresets(input.foodType)

----------------------------------------------------------------------------
(* Properties of the page, under SpecPage                                  *)

\* A handler that ran updateDonenessOptions() with the category meat.
OptionsRebuilt ==
    /\ out.op \in {"init", "language", "tempUnit", "category", "foodType"}
    /\ input.state.category = "meat"

\* The first entry of the presets of the food type the select shows.
FirstPreset == Num(getDonenessPresets(out.foodType)[1].temp)

\* C23 as stated: after the options are rebuilt for a meat, the selected
\* doneness is the first preset.
C23_FirstPresetSelected == OptionsRebuilt => out.doneness = FirstPreset

\* C23: after the doneness options are rebuilt for a meat, they are manual
\* and the presets of the food type shown, and the selected doneness is the
\* one loaded from the saved settings when it is among them, otherwise the
\* first preset.
C23_SavedOrFirstPreset ==
    OptionsRebuilt =>
        LET presets == getDonenessPresets(out.foodType)
            saved == input.savedDoneness
        IN  /\ out.donenessOptions =
                   <<Manual>> \o [i \in DOMAIN presets |-> Num(presets[i].temp)]
            /\ out.doneness =
                   IF saved # Null /\ saved \in Range(out.donenessOptions)
                   THEN saved
                   ELSE FirstPreset

C23_Witness ==
    /\ OptionsRebuilt
    /\ out.op = "foodType"
    /\ out.foodType = "beef"
    /\ input.savedDoneness = Num(700)
    /\ out.doneness = Num(700)
    /\ FirstPreset = Num(520)

\* A handler that ran handleDonenessChange() last on the controls, with a
\* preset selected and the category meat.
PresetApplied ==
    /\ out.op \in {"init", "tempUnit", "category", "foodType", "doneness"}
    /\ input.state.category = "meat"
    /\ out.doneness.k = "num"

\* C24: after handleDonenessChange() with a preset selected for a meat, the
\* target control shows the preset and is disabled, and the bath control
\* holds a value from preset + 0.5 to preset + 5 degrees Celsius.
C24_PresetLocksTargetAndBoundsBath ==
    PresetApplied =>
        LET bath == CelsiusOf(input.state.unit, out.tempBath)
        IN  /\ out.tempCore = DisplayOf(input.state.unit, out.doneness)
            /\ out.tempCoreDisabled
            /\ bath.k = "num"
            /\ out.doneness.v + 5 <= bath.v
            /\ bath.v <= out.doneness.v + 50

\* C25: after every handler state.foodType, state.tempBath and
\* state.tempCore are what the controls show, in Celsius.
C25_StateMatchesControls ==
    /\ input.state.foodType = out.foodType
    /\ input.state.tempBath = CelsiusOf(input.state.unit, out.tempBath)
    /\ input.state.tempCore = CelsiusOf(input.state.unit, out.tempCore)

\* C26: a change of language or of temperature unit leaves the selected
\* doneness as it was.
C26_DonenessKept ==
    [][out'.op \in {"language", "tempUnit"} => out'.doneness = out.doneness]_vars

\* C29: with the length in inches, a handler that runs updateState()
\* without an edit of the thickness leaves state.thickness as it was.
C29_ThicknessKept ==
    [][(/\ out'.op \in {"shape", "doneness", "tempBath", "tempCore",
                        "foodType", "category"}
        /\ input.state.lengthUnit = "inch")
           => input'.state.thickness = input.state.thickness]_vars

----------------------------------------------------------------------------
(* The chart after calculate(), under SpecCalculate                        *)

\* The charts calculate() draws for a state on a page that shows none.
ChartsOf(state) == {els.chartData : els \in calculate(state, PageEls)}

\* C27: after calculate() the chart's points are the curve of the current
\* state, and no points when the state has no result.
C27_ChartOfCurrentState ==
    CalculateCalled => out.chartData \in ChartsOf(input)

----------------------------------------------------------------------------
(* The service worker, under SpecWorker                                    *)

\* C28: once the install step has completed and the worker is active, the
\* fetch handler answers every module app.js imports from the cache.
C28_ImportsServedFromCache ==
    (out.op = "fetch" /\ out.active /\ input.request \in Imports)
        => out.response = "cache"

=============================================================================
